---- MODULE Spec2Model ----
(***************************************************************************)
(* A model of libdb.so/persist: the typed Map over the byte-level Driver   *)
(* contract, with the file-snapshot driver (cborDriver) as the backend.    *)
(*                                                                         *)
(* The Map is built by NewMap[K, V](CBORDriver, path): both the key and    *)
(* the value go through the CBOR encoder.  The typed keys the callers use  *)
(* are short text strings (sequences of character codes), the typed values *)
(* small unsigned integers; one more key and one more value stand for Go   *)
(* values of K and V that the CBOR encoder rejects.  Bytes are numbers     *)
(* 0..255, byte strings are sequences of them.                             *)
(***************************************************************************)
EXTENDS Integers, Sequences, FiniteSets, TLC

---------------------------------------------------------------------------
(* Typed universe                                                          *)

\* The zero value of V (var v V).
Zero == 0

\* Largest typed value of the model; its CBOR encoding needs a second byte
\* (24..255).
MaxValue == 24

\* A typed key / value the CBOR encoder returns an error for.
UnencodableKey == <<-1>>
UnencodableValue == -1

\* The encodable typed keys and values the callers use: the keys "" and
\* "a", the values 0 and MaxValue.
Keys == {<<>>, <<97>>}
Values == {Zero, MaxValue}

AnyKey == Keys \cup {UnencodableKey}
AnyValue == Values \cup {UnencodableValue}

---------------------------------------------------------------------------
(* CBOR, as far as the encoders and the file use it                        *)

Major(b) == b \div 32
Info(b) == b % 32

\* The length of the well-formed data item at the head of bs; 0 when there
\* is none (unsigned integers below 256, byte and text strings below 24
\* bytes: the items this model writes).
ItemLen(bs) ==
    IF Len(bs) = 0 THEN 0
    ELSE IF Major(bs[1]) = 0
         THEN (IF Info(bs[1]) < 24 THEN 1
               ELSE IF Info(bs[1]) = 24 /\ Len(bs) >= 2 THEN 2 ELSE 0)
    ELSE IF Major(bs[1]) \in {2, 3} /\ Info(bs[1]) < 24 /\ Len(bs) >= 1 + Info(bs[1])
         THEN 1 + Info(bs[1])
    ELSE 0

\* cborEncoder[K].Encode: a text string becomes a CBOR text string.
EncodeKey(k) ==
    IF k = UnencodableKey
    THEN [err |-> TRUE, b |-> <<>>]
    ELSE [err |-> FALSE, b |-> <<96 + Len(k)>> \o k]

\* cborEncoder[K].Decode: only a CBOR text string decodes to a key.
DecodeKey(bs) ==
    IF ItemLen(bs) = Len(bs) /\ Len(bs) > 0 /\ Major(bs[1]) = 3
    THEN [err |-> FALSE, v |-> Tail(bs)]
    ELSE [err |-> TRUE, v |-> <<>>]

\* cborEncoder[V].Encode: an unsigned integer below 256.
EncodeValue(v) ==
    IF v = UnencodableValue
    THEN [err |-> TRUE, b |-> <<>>]
    ELSE IF v < 24 THEN [err |-> FALSE, b |-> <<v>>]
    ELSE [err |-> FALSE, b |-> <<24, v>>]

\* cborEncoder[V].Decode: only a CBOR unsigned integer decodes to a value;
\* on an error v is left the zero value.
DecodeValue(bs) ==
    IF ItemLen(bs) = Len(bs) /\ Len(bs) > 0 /\ Major(bs[1]) = 0
    THEN [err |-> FALSE, v |-> IF Info(bs[1]) < 24 THEN Info(bs[1]) ELSE bs[2]]
    ELSE [err |-> TRUE, v |-> Zero]

---------------------------------------------------------------------------
(* The byte-level mapping of cborDriver: a function on its present keys    *)

EmptyMap == [x \in {} |-> <<>>]

\* cborDriver.Get
txGet(mm, bk) ==
    IF bk \in DOMAIN mm THEN [bv |-> mm[bk], ok |-> TRUE]
    ELSE [bv |-> <<>>, ok |-> FALSE]

\* A Set that keeps the value of a key that is already present.
txSetKeepsOld(mm, bk, bv) ==
    [x \in DOMAIN mm \cup {bk} |-> IF x \in DOMAIN mm THEN mm[x] ELSE bv]

\* A Set that drops every other entry of the mapping.
txSetAlone(mm, bk, bv) == [x \in {bk} |-> bv]

\* cborDriver.Set
txSet(mm, bk, bv) == [x \in DOMAIN mm \cup {bk} |-> IF x = bk THEN bv ELSE mm[x]]

\* A Delete that leaves the key in place.
txDeleteKeeps(mm, bk) == mm

\* cborDriver.Delete
txDelete(mm, bk) == [x \in DOMAIN mm \ {bk} |-> mm[x]]

\* A loop that misses one entry.
EachKeysButOne(mm) ==
    IF DOMAIN mm = {} THEN {} ELSE DOMAIN mm \ {CHOOSE bk \in DOMAIN mm : TRUE}

\* The keys cborDriver.Each and EachKey range over.
EachKeys(mm) == DOMAIN mm

---------------------------------------------------------------------------
(* The file: cbor.Marshal(d.m) and cbor.NewDecoder(f).Decode(&d.m)         *)

\* The orders in which a Go map can be enumerated.
Orders(S) ==
    {s \in [1..Cardinality(S) -> S] : \A i, j \in 1..Cardinality(S) : i # j => s[i] # s[j]}

RECURSIVE MarshalPairs(_, _)
MarshalPairs(mm, ord) ==
    IF Len(ord) = 0 THEN <<>>
    ELSE <<64 + Len(Head(ord))>> \o Head(ord) \o mm[Head(ord)] \o MarshalPairs(mm, Tail(ord))

\* cbor.Marshal of map[cbor.ByteString]cbor.RawMessage, pairs in order ord.
MarshalMap(mm, ord) == <<160 + Len(ord)>> \o MarshalPairs(mm, ord)

MarshalFiles(mm) == {MarshalMap(mm, ord) : ord \in Orders(DOMAIN mm)}

DropFirst(bs, n) == SubSeq(bs, n + 1, Len(bs))

RECURSIVE ParsePairs(_, _, _)
ParsePairs(bs, n, acc) ==
    IF n = 0 THEN [ok |-> TRUE, m |-> acc]
    ELSE IF ItemLen(bs) = 0 \/ Major(bs[1]) # 2 THEN [ok |-> FALSE, m |-> EmptyMap]
    ELSE LET kl == ItemLen(bs)
             rest == DropFirst(bs, kl)
             vl == ItemLen(rest)
         IN IF vl = 0 THEN [ok |-> FALSE, m |-> EmptyMap]
            ELSE ParsePairs(DropFirst(rest, vl), n - 1,
                            txSet(acc, SubSeq(bs, 2, kl), SubSeq(rest, 1, vl)))

\* A decoder that reads the first pair of the file only.
UnmarshalFirstPair(bs) ==
    IF Len(bs) = 0 \/ Major(bs[1]) # 5 \/ Info(bs[1]) >= 24
    THEN [ok |-> FALSE, m |-> EmptyMap]
    ELSE ParsePairs(Tail(bs), IF Info(bs[1]) > 1 THEN 1 ELSE Info(bs[1]), EmptyMap)

\* Decoding the file into map[cbor.ByteString]cbor.RawMessage.
UnmarshalMap(bs) ==
    IF Len(bs) = 0 \/ Major(bs[1]) # 5 \/ Info(bs[1]) >= 24
    THEN [ok |-> FALSE, m |-> EmptyMap]
    ELSE ParsePairs(Tail(bs), Info(bs[1]), EmptyMap)

---------------------------------------------------------------------------
(* Errors, as the strings that tell them apart.  "nil" is no error.        *)

Nil == "nil"
ErrEncodeKey == "encode key"
ErrEncodeValue == "encode value"
ErrDecodeKey == "decode key"
ErrDecodeValue == "decode value"
ErrWriteFile == "persist: write file"
ErrCallback == "callback failed"

\* driverStopIteration
driverStopIteration == "stop iteration"

---------------------------------------------------------------------------
(* The callbacks of Map, as functions of the mapping they run on           *)

NoResult == [v |-> Zero, ok |-> FALSE]

\* The callback of Map.Load: Get, then Decode if found.
LoadCallback(mm, bk) ==
    LET g == txGet(mm, bk)
        d == DecodeValue(g.bv)
    IN IF ~g.ok THEN [v |-> Zero, ok |-> FALSE, err |-> Nil]
       ELSE IF d.err THEN [v |-> d.v, ok |-> TRUE, err |-> ErrDecodeValue]
       ELSE [v |-> d.v, ok |-> TRUE, err |-> Nil]

\* A LoadOrStore that stores the caller's value over a present key.
LoadOrStoreOverwrites(mm, bk, g, v) ==
    LET e == EncodeValue(v)
        d == DecodeValue(g.bv)
    IN IF e.err
       THEN [m |-> mm, v |-> Zero, ok |-> FALSE, err |-> ErrEncodeValue]
       ELSE IF ~g.ok
       THEN [m |-> txSet(mm, bk, e.b), v |-> Zero, ok |-> FALSE, err |-> Nil]
       ELSE [m |-> txSet(mm, bk, e.b), v |-> d.v, ok |-> TRUE, err |-> Nil]

\* The callback of Map.LoadOrStore after its Get returned g:
\* the mapping it leaves, the named results (value, loaded) and its error.
LoadOrStoreCallback(mm, bk, g, v) ==
    LET e == EncodeValue(v)
        d == DecodeValue(g.bv)
    IN IF ~g.ok
       THEN IF e.err
            THEN [m |-> mm, v |-> Zero, ok |-> FALSE, err |-> ErrEncodeValue]
            ELSE [m |-> txSet(mm, bk, e.b), v |-> Zero, ok |-> FALSE, err |-> Nil]
       ELSE IF d.err
            THEN [m |-> mm, v |-> Zero, ok |-> FALSE, err |-> ErrDecodeValue]
            ELSE [m |-> mm, v |-> d.v, ok |-> TRUE, err |-> Nil]

\* A LoadAndDelete that deletes every entry of the mapping.
LoadAndDeleteClears(mm, bk, g) ==
    LET d == DecodeValue(g.bv)
    IN IF ~g.ok THEN [m |-> mm, v |-> Zero, ok |-> FALSE, err |-> Nil]
       ELSE IF d.err
            THEN [m |-> mm, v |-> d.v, ok |-> TRUE, err |-> ErrDecodeValue]
            ELSE [m |-> EmptyMap, v |-> d.v, ok |-> TRUE, err |-> Nil]

\* A LoadAndDelete that deletes the key before it decodes the value.
LoadAndDeleteDeletesFirst(mm, bk, g) ==
    LET d == DecodeValue(g.bv)
    IN IF ~g.ok THEN [m |-> mm, v |-> Zero, ok |-> FALSE, err |-> Nil]
       ELSE IF d.err
            THEN [m |-> txDelete(mm, bk), v |-> d.v, ok |-> TRUE, err |-> ErrDecodeValue]
            ELSE [m |-> txDelete(mm, bk), v |-> d.v, ok |-> TRUE, err |-> Nil]

\* The callback of Map.LoadAndDelete after its Get returned g.
LoadAndDeleteCallback(mm, bk, g) ==
    LET d == DecodeValue(g.bv)
    IN IF ~g.ok THEN [m |-> mm, v |-> Zero, ok |-> FALSE, err |-> Nil]
       ELSE IF d.err
            THEN [m |-> mm, v |-> d.v, ok |-> TRUE, err |-> ErrDecodeValue]
            ELSE [m |-> txDelete(mm, bk), v |-> d.v, ok |-> TRUE, err |-> Nil]

\* A visitor that ignores the consumer's answer.
YieldIgnored(cont) == Nil

\* What the visitor of Map.All / Map.Keys returns to the driver for the
\* consumer's answer.
YieldResult(cont) == IF cont THEN Nil ELSE driverStopIteration

NoItem == [k |-> <<>>, v |-> Zero]

\* The visitor Map.All passes to Each: whether it reached yield, with what,
\* and what it returns.
AllVisit(bk, bv, cont) ==
    LET dk == DecodeKey(bk)
        dv == DecodeValue(bv)
    IN IF dk.err THEN [yield |-> FALSE, item |-> NoItem, err |-> ErrDecodeKey]
       ELSE IF dv.err THEN [yield |-> FALSE, item |-> NoItem, err |-> ErrDecodeValue]
       ELSE [yield |-> TRUE, item |-> [k |-> dk.v, v |-> dv.v], err |-> YieldResult(cont)]

\* The visitor Map.Keys passes to EachKey (a yielded key is an item whose v
\* is unused).
KeysVisit(bk, cont) ==
    LET dk == DecodeKey(bk)
    IN IF dk.err THEN [yield |-> FALSE, item |-> NoItem, err |-> ErrDecodeKey]
       ELSE [yield |-> TRUE, item |-> [k |-> dk.v, v |-> Zero], err |-> YieldResult(cont)]

\* cborDriver.Each / EachKey: the loop goes on to the next entry only when
\* the visitor returned nil.
EachContinues(err) == err = Nil

---------------------------------------------------------------------------
(* The identity codecs: StringEncoder, BytesEncoder                        *)

\* The longest string, byte sequence and buffer of a round trip.
MaxLen == 2

Bytes == {0, 97}

SeqsUpTo(n) == UNION {[1..k -> Bytes] : k \in 0..n}

\* A []byte: its backing array, up to its capacity, and its length.
Slices == UNION {{[arr |-> a, len |-> l] : l \in 0..Len(a)} : a \in SeqsUpTo(MaxLen)}

\* The bytes of slice b.
Contents(b) == SubSeq(b.arr, 1, b.len)

\* nil, as a []byte.
NilSlice == [arr |-> <<>>, len |-> 0]

\* b[:0]
ResliceZero(b) == [b EXCEPT !.len = 0]

\* append(b, v...): in place while the capacity holds b and v, in a new
\* array otherwise.
AppendTo(b, v) ==
    IF b.len + Len(v) <= Len(b.arr)
    THEN [arr |-> SubSeq(b.arr, 1, b.len) \o v
                    \o SubSeq(b.arr, b.len + Len(v) + 1, Len(b.arr)),
          len |-> b.len + Len(v)]
    ELSE [arr |-> Contents(b) \o v, len |-> b.len + Len(v)]

\* An encoder that appends to the buffer it is given.
encodeAppends(v, buf) == AppendTo(buf, v)

\* stringEncoder.Encode: append(buf[:0], v...)
stringEncode(v, buf) == AppendTo(ResliceZero(buf), v)

\* stringEncoder.Decode: T(buf), a string holding a copy of buf's bytes.
stringDecode(buf) == Contents(buf)

\* bytesEncoder.Encode: append(buf[:0], v...)
bytesEncode(v, buf) == AppendTo(ResliceZero(buf), v)

\* bytesEncoder.Decode: T(append([]byte(nil), buf...))
bytesDecode(buf) == Contents(AppendTo(NilSlice, Contents(buf)))

NoCodec == [pc |-> "none", kind |-> "string", v |-> <<>>, buf |-> NilSlice,
            enc |-> NilSlice, dec |-> <<>>]

---------------------------------------------------------------------------
(* State                                                                   *)

\* The goroutines that call the Map.
Procs == {1, 2}

\* The callers the sequential specification schedules.
Callers == {1}

RWOps == {"Store", "LoadOrStore", "LoadAndDelete", "Delete", "RawSet", "RawDelete"}
ROOps == {"Load", "All", "Keys"}
IterOps == {"All", "Keys"}

\* The calls of Map that mutate the mapping.
MapMutators == {"Store", "Delete", "LoadOrStore", "LoadAndDelete"}

VARIABLES
    drv,      \* the handle the callers hold: "none", "open", "closed"
    m,        \* cborDriver.m
    file,     \* the file at cborDriver.path
    writer,   \* the goroutine holding d.mu exclusively, 0 if none
    readers,  \* the goroutines holding d.mu shared
    pc,       \* where each goroutine is in its call
    op,       \* the call it is in: name, typed key, typed value
    got,      \* what tx.Get returned inside its read-write callback
    res,      \* the call's results (value, found) and, once returned, error
    txerr,    \* what AcquireRO / AcquireRW is returning
    pre,      \* the mapping when its transaction was opened
    todo,     \* the entries its Each / EachKey loop has yet to visit
    out,      \* what its consumer has been yielded in this run
    stopped,  \* whether its consumer has answered false in this run
    abs,      \* per typed key, the outcome of its last successful mutation,
              \* unknown once a transaction on that key has failed
    dirty,    \* whether a read-write transaction has failed since the file
              \* was last written
    snap,     \* the mapping at Close, while nothing has run since
    path,     \* cborDriver.path, the path the driver is opened with
    must,     \* what the MustMap / MustValue method around the call did
    codec     \* a round trip through StringEncoder or BytesEncoder

vars == <<drv, m, file, writer, readers, pc, op, got, res, txerr, pre, todo,
          out, stopped, abs, dirty, snap, path, must, codec>>

drvVars == <<drv, m, file>>
lockVars == <<writer, readers>>
ghostVars == <<abs, dirty, snap>>
iterVars == <<todo, out, stopped>>

NoOp == [name |-> "none", k |-> <<>>, v |-> Zero, closed |-> FALSE]
NoGot == [bv |-> <<>>, ok |-> FALSE]
NoRes == [v |-> Zero, ok |-> FALSE, err |-> Nil]
NoSnap == [set |-> FALSE, m |-> EmptyMap]
Unknown == [known |-> FALSE, ok |-> FALSE, v |-> Zero]
NoMust == [panic |-> FALSE, v |-> Zero, ok |-> FALSE]

\* An ordinary file path, and the path that names no file.
FilePath == "test.cbor"
MemoryPath == ":memory:"

NoFile == [exists |-> FALSE, data |-> <<>>]
FileOf(bs) == [exists |-> TRUE, data |-> bs]

\* A file that is no CBOR at all.
GarbageFile == FileOf(<<255>>)

\* A file another program left: a value that is a text string, not an int.
ForeignValueFile ==
    FileOf(MarshalMap([x \in {<<96>>, <<97, 97>>} |->
                          IF x = <<96>> THEN <<24, MaxValue>> ELSE <<97, 97>>],
                      <<(<<96>>), (<<97, 97>>)>>))

\* A file another program left: a key that is an int, not a text string.
ForeignKeyFile == FileOf(MarshalMap([x \in {<<5>>} |-> <<Zero>>], <<(<<5>>)>>))

InitFiles == {NoFile, GarbageFile, ForeignValueFile, ForeignKeyFile}

\* Before the driver is opened with path pth, where one of files may lie.
InitMap(pth, files) ==
    /\ path = pth
    /\ must = [p \in Procs |-> NoMust]
    /\ drv = "none"
    /\ m = EmptyMap
    /\ file \in files
    /\ writer = 0
    /\ readers = {}
    /\ pc = [p \in Procs |-> "idle"]
    /\ op = [p \in Procs |-> NoOp]
    /\ got = [p \in Procs |-> NoGot]
    /\ res = [p \in Procs |-> NoRes]
    /\ txerr = [p \in Procs |-> Nil]
    /\ pre = [p \in Procs |-> NoSnap]
    /\ todo = [p \in Procs |-> {}]
    /\ out = [p \in Procs |-> <<>>]
    /\ stopped = [p \in Procs |-> FALSE]
    /\ abs = [k \in Keys |-> Unknown]
    /\ dirty = FALSE
    /\ snap = NoSnap

\* The same, with no codec round trip under way.
InitWith(pth, files) == InitMap(pth, files) /\ codec = NoCodec

Init == InitWith(FilePath, InitFiles)

---------------------------------------------------------------------------
(* Opening and closing the driver                                          *)

NoCallInFlight == /\ \A p \in Procs : pc[p] = "idle"
                  /\ writer = 0
                  /\ readers = {}

\* openCBORDriver, the file exists and decodes: d.m is the file's mapping.
OpenLoad ==
    /\ drv \in {"none", "closed"}
    /\ NoCallInFlight
    /\ file.exists
    /\ UnmarshalMap(file.data).ok
    /\ m' = UnmarshalMap(file.data).m
    /\ drv' = "open"
    /\ abs' = [k \in Keys |-> Unknown]
    /\ dirty' = FALSE
    /\ UNCHANGED <<path, codec, must, file, lockVars, pc, op, got, res, txerr, pre, iterVars, snap>>

\* An open that hands out the driver without writing the missing file.
OpenCreateLazy ==
    /\ drv \in {"none", "closed"}
    /\ NoCallInFlight
    /\ ~file.exists
    /\ m' = EmptyMap
    /\ drv' = "open"
    /\ abs' = [k \in Keys |-> Unknown]
    /\ dirty' = FALSE
    /\ UNCHANGED <<path, codec, must, file, lockVars, pc, op, got, res, txerr, pre, iterVars, snap>>

\* openCBORDriver, no file: an empty mapping, written at once by an
\* AcquireRW whose callback does nothing.
OpenCreate ==
    /\ drv \in {"none", "closed"}
    /\ NoCallInFlight
    /\ ~file.exists
    /\ m' = EmptyMap
    /\ file' = FileOf(MarshalMap(EmptyMap, <<>>))
    /\ drv' = "open"
    /\ abs' = [k \in Keys |-> Unknown]
    /\ dirty' = FALSE
    /\ UNCHANGED <<path, codec, must, lockVars, pc, op, got, res, txerr, pre, iterVars, snap>>

\* openCBORDriver returns an error and no driver: the file does not decode,
\* or there is none and writing it fails (os.WriteFile may have created it).
OpenError ==
    /\ drv \in {"none", "closed"}
    /\ NoCallInFlight
    /\ \/ /\ file.exists
          /\ ~UnmarshalMap(file.data).ok
          /\ file' = file
       \/ /\ ~file.exists
          /\ file' \in {file, FileOf(<<>>)}
    /\ drv' = "none"
    /\ m' = EmptyMap
    /\ snap' = NoSnap
    /\ dirty' = FALSE
    /\ UNCHANGED <<path, codec, must, lockVars, pc, op, got, res, txerr, pre, iterVars, abs>>

\* cborDriver.Close (through Map.Close): returns nil and does nothing.
Close ==
    /\ drv = "open"
    /\ drv' = "closed"
    /\ snap' = [set |-> ~dirty /\ writer = 0, m |-> m]
    /\ UNCHANGED <<path, codec, must, m, file, lockVars, pc, op, got, res, txerr, pre, iterVars, abs, dirty>>

---------------------------------------------------------------------------
(* A call of Map, up to its transaction                                    *)

ArgKeys(name) == IF name \in IterOps THEN {<<>>}
                 ELSE IF name \in {"RawSet", "RawDelete"} THEN Keys
                 ELSE AnyKey
ArgValues(name) == IF name \in {"Store", "LoadOrStore"} THEN AnyValue
                   ELSE IF name = "RawSet" THEN Values
                   ELSE {Zero}

\* A Store that leaves the encoding of its value to the transaction.
EncodeErrorKeyOnly(name, k, v) ==
    IF name \in IterOps \cup {"RawSet", "RawDelete"} THEN Nil
    ELSE IF EncodeKey(k).err THEN ErrEncodeKey
    ELSE Nil

\* The error a call returns before it acquires any transaction, or nil:
\* Store encodes the key and the value first, Load, LoadOrStore,
\* LoadAndDelete and Delete the key.
EncodeError(name, k, v) ==
    IF name \in IterOps \cup {"RawSet", "RawDelete"} THEN Nil
    ELSE IF EncodeKey(k).err THEN ErrEncodeKey
    ELSE IF name = "Store" /\ EncodeValue(v).err THEN ErrEncodeValue
    ELSE Nil

\* A wrapper that panics on a Load that found nothing, too.
MustPanicsOnAbsent(name, r) ==
    IF name \notin MapMutators \cup {"Load"} THEN NoMust
    ELSE IF r.err # Nil \/ (name = "Load" /\ ~r.ok)
         THEN [NoMust EXCEPT !.panic = TRUE]
         ELSE [panic |-> FALSE, v |-> r.v, ok |-> r.ok]

\* The method of MustMap (MustValue) around the call of Map (Value) that
\* returned r: it panics if r holds an error and returns r's values
\* otherwise.  All and Keys are Map's own, MustMap embeds Map.
MustResult(name, r) ==
    IF name \notin MapMutators \cup {"Load"} THEN NoMust
    ELSE IF r.err # Nil
         THEN [NoMust EXCEPT !.panic = TRUE]
         ELSE [panic |-> FALSE, v |-> r.v, ok |-> r.ok]

\* A caller enters Store, Load, LoadOrStore, LoadAndDelete, Delete, All or
\* Keys, or uses the Driver directly with a callback that does one Set
\* ("RawSet") or one Delete ("RawDelete") and then returns an error.
Call(p, name, k, v) ==
    /\ drv \in {"open", "closed"}
    /\ pc[p] = "idle"
    /\ op' = [op EXCEPT ![p] = [name |-> name, k |-> k, v |-> v,
                                closed |-> (drv = "closed")]]
    /\ IF EncodeError(name, k, v) # Nil
       THEN /\ pc' = [pc EXCEPT ![p] = "done"]
            /\ res' = [res EXCEPT ![p] = [NoRes EXCEPT !.err = EncodeError(name, k, v)]]
            /\ must' = [must EXCEPT ![p] =
                           MustResult(name, [NoRes EXCEPT !.err = EncodeError(name, k, v)])]
       ELSE /\ pc' = [pc EXCEPT ![p] = "wait"]
            /\ res' = [res EXCEPT ![p] = NoRes]
            /\ UNCHANGED must
    /\ UNCHANGED <<path, codec, drvVars, lockVars, got, txerr, pre, iterVars, ghostVars>>

\* The driver's key of the call.
bkOf(p) == EncodeKey(op[p].k).b

\* An AcquireRW that takes no lock: it enters whoever holds d.mu.
LockRWShared(p) ==
    /\ pc[p] = "wait"
    /\ op[p].name \in RWOps
    /\ writer' = p
    /\ pc' = [pc EXCEPT ![p] = "tx"]
    /\ pre' = [pre EXCEPT ![p] = [set |-> TRUE, m |-> m]]
    /\ snap' = NoSnap
    /\ UNCHANGED <<path, codec, must, drvVars, readers, op, got, res, txerr, iterVars, abs, dirty>>

\* An AcquireRW that waits for the writer only, not for the readers.
LockRWIgnoresReaders(p) ==
    /\ pc[p] = "wait"
    /\ op[p].name \in RWOps
    /\ writer = 0
    /\ writer' = p
    /\ pc' = [pc EXCEPT ![p] = "tx"]
    /\ pre' = [pre EXCEPT ![p] = [set |-> TRUE, m |-> m]]
    /\ snap' = NoSnap
    /\ UNCHANGED <<path, codec, must, drvVars, readers, op, got, res, txerr, iterVars, abs, dirty>>

\* An AcquireRW whose lock lets in the goroutine that holds it shared.
LockRWReentrant(p) ==
    /\ pc[p] = "wait"
    /\ op[p].name \in RWOps
    /\ writer = 0
    /\ readers \subseteq {p}
    /\ writer' = p
    /\ pc' = [pc EXCEPT ![p] = "tx"]
    /\ pre' = [pre EXCEPT ![p] = [set |-> TRUE, m |-> m]]
    /\ snap' = NoSnap
    /\ UNCHANGED <<path, codec, must, drvVars, readers, op, got, res, txerr, iterVars, abs, dirty>>

\* cborDriver.AcquireRW: d.mu.Lock().
LockRW(p) ==
    /\ pc[p] = "wait"
    /\ op[p].name \in RWOps
    /\ writer = 0
    /\ readers = {}
    /\ writer' = p
    /\ pc' = [pc EXCEPT ![p] = "tx"]
    /\ pre' = [pre EXCEPT ![p] = [set |-> TRUE, m |-> m]]
    /\ snap' = NoSnap
    /\ UNCHANGED <<path, codec, must, drvVars, readers, op, got, res, txerr, iterVars, abs, dirty>>

\* An AcquireRO that enters while a writer holds d.mu.
LockROIgnoresWriter(p) ==
    /\ pc[p] = "wait"
    /\ op[p].name \in ROOps
    /\ readers' = readers \cup {p}
    /\ pre' = [pre EXCEPT ![p] = [set |-> TRUE, m |-> m]]
    /\ IF op[p].name \in IterOps
       THEN /\ pc' = [pc EXCEPT ![p] = "iter"]
            /\ todo' = [todo EXCEPT ![p] = EachKeys(m)]
       ELSE /\ pc' = [pc EXCEPT ![p] = "tx"]
            /\ UNCHANGED todo
    /\ UNCHANGED <<path, codec, must, drvVars, writer, op, got, res, txerr, out, stopped, ghostVars>>

\* cborDriver.AcquireRO: d.mu.RLock().  Load's callback follows; All and
\* Keys enter the driver's loop over the mapping.
LockRO(p) ==
    /\ pc[p] = "wait"
    /\ op[p].name \in ROOps
    /\ writer = 0
    /\ readers' = readers \cup {p}
    /\ pre' = [pre EXCEPT ![p] = [set |-> TRUE, m |-> m]]
    /\ IF op[p].name \in IterOps
       THEN /\ pc' = [pc EXCEPT ![p] = "iter"]
            /\ todo' = [todo EXCEPT ![p] = EachKeys(m)]
       ELSE /\ pc' = [pc EXCEPT ![p] = "tx"]
            /\ UNCHANGED todo
    /\ UNCHANGED <<path, codec, must, drvVars, writer, op, got, res, txerr, out, stopped, ghostVars>>

---------------------------------------------------------------------------
(* Inside a transaction                                                    *)

\* The callback of Map.Load, whole: it only reads.
TxLoad(p) ==
    /\ pc[p] = "tx"
    /\ op[p].name = "Load"
    /\ LET r == LoadCallback(m, bkOf(p))
       IN /\ res' = [res EXCEPT ![p] = [NoRes EXCEPT !.v = r.v, !.ok = r.ok]]
          /\ txerr' = [txerr EXCEPT ![p] = r.err]
    /\ pc' = [pc EXCEPT ![p] = "ret"]
    /\ UNCHANGED <<path, codec, must, drvVars, lockVars, op, got, pre, iterVars, ghostVars>>

\* The callback of Map.Store: tx.Set(bk, bv).
TxStore(p) ==
    /\ pc[p] = "tx"
    /\ op[p].name = "Store"
    /\ m' = txSet(m, bkOf(p), EncodeValue(op[p].v).b)
    /\ pc' = [pc EXCEPT ![p] = "commit"]
    /\ UNCHANGED <<path, codec, must, drv, file, lockVars, op, got, res, txerr, pre, iterVars, ghostVars>>

\* The callback of Map.Delete: tx.Delete(bk).
TxDelete(p) ==
    /\ pc[p] = "tx"
    /\ op[p].name = "Delete"
    /\ m' = txDelete(m, bkOf(p))
    /\ pc' = [pc EXCEPT ![p] = "commit"]
    /\ UNCHANGED <<path, codec, must, drv, file, lockVars, op, got, res, txerr, pre, iterVars, ghostVars>>

\* The tx.Get that opens the callbacks of LoadOrStore and LoadAndDelete.
TxGet(p) ==
    /\ pc[p] = "tx"
    /\ op[p].name \in {"LoadOrStore", "LoadAndDelete"}
    /\ got' = [got EXCEPT ![p] = txGet(m, bkOf(p))]
    /\ pc' = [pc EXCEPT ![p] = "got"]
    /\ UNCHANGED <<path, codec, must, drvVars, lockVars, op, res, txerr, pre, iterVars, ghostVars>>

\* The rest of the callback of LoadOrStore or LoadAndDelete.  A callback
\* that returns an error makes AcquireRW return it at once.
TxAfterGet(p) ==
    /\ pc[p] = "got"
    /\ LET r == IF op[p].name = "LoadOrStore"
                THEN LoadOrStoreCallback(m, bkOf(p), got[p], op[p].v)
                ELSE LoadAndDeleteCallback(m, bkOf(p), got[p])
       IN /\ m' = r.m
          /\ res' = [res EXCEPT ![p] = [NoRes EXCEPT !.v = r.v, !.ok = r.ok]]
          /\ txerr' = [txerr EXCEPT ![p] = r.err]
          /\ pc' = [pc EXCEPT ![p] = IF r.err = Nil THEN "commit" ELSE "ret"]
          /\ dirty' = (dirty \/ r.err # Nil)
          /\ abs' = IF r.err # Nil THEN [abs EXCEPT ![op[p].k] = Unknown] ELSE abs
    /\ UNCHANGED <<path, codec, must, drv, file, lockVars, op, got, pre, iterVars, snap>>

\* A callback given to AcquireRW directly: one Set or one Delete, then it
\* returns an error, which AcquireRW returns at once.
TxRaw(p) ==
    /\ pc[p] = "tx"
    /\ op[p].name \in {"RawSet", "RawDelete"}
    /\ m' = IF op[p].name = "RawSet"
            THEN txSet(m, bkOf(p), EncodeValue(op[p].v).b)
            ELSE txDelete(m, bkOf(p))
    /\ txerr' = [txerr EXCEPT ![p] = ErrCallback]
    /\ pc' = [pc EXCEPT ![p] = "ret"]
    /\ dirty' = TRUE
    /\ abs' = [abs EXCEPT ![op[p].k] = Unknown]
    /\ UNCHANGED <<path, codec, must, drv, file, lockVars, op, got, res, pre, iterVars, snap>>

\* What a successful call leaves known about its key.
AbsAfter(p) ==
    LET n == op[p].name
        stored == [known |-> TRUE, ok |-> TRUE, v |-> op[p].v]
        deleted == [known |-> TRUE, ok |-> FALSE, v |-> Zero]
    IN IF n = "Store" \/ (n = "LoadOrStore" /\ ~got[p].ok)
       THEN [abs EXCEPT ![op[p].k] = stored]
       ELSE IF n = "Delete" \/ (n = "LoadAndDelete" /\ got[p].ok)
       THEN [abs EXCEPT ![op[p].k] = deleted]
       ELSE abs

\* A commit that writes an empty mapping whatever d.m holds.
CommitEmpty(mm) == {MarshalMap(EmptyMap, <<>>)}

\* What AcquireRW writes to the file once the callback returned nil.
CommitData(mm) == MarshalFiles(mm)

\* AcquireRW after a callback that returned nil: cbor.Marshal(d.m) and
\* os.WriteFile succeed.
Commit(p) ==
    /\ pc[p] = "commit"
    /\ \E bs \in CommitData(m) : file' = FileOf(bs)
    /\ txerr' = [txerr EXCEPT ![p] = Nil]
    /\ pc' = [pc EXCEPT ![p] = "ret"]
    /\ abs' = AbsAfter(p)
    /\ dirty' = FALSE
    /\ UNCHANGED <<path, codec, must, drv, m, lockVars, op, got, res, pre, iterVars, snap>>

\* AcquireRW after a callback that returned nil: os.WriteFile fails, before
\* or after it truncated the file.
CommitFail(p) ==
    /\ pc[p] = "commit"
    /\ file' \in {file, FileOf(<<>>)}
    /\ txerr' = [txerr EXCEPT ![p] = ErrWriteFile]
    /\ pc' = [pc EXCEPT ![p] = "ret"]
    /\ dirty' = TRUE
    /\ abs' = [abs EXCEPT ![op[p].k] = Unknown]
    /\ UNCHANGED <<path, codec, must, drv, m, lockVars, op, got, res, pre, iterVars, snap>>

---------------------------------------------------------------------------
(* Iteration: cborDriver.Each / EachKey driving the visitor of All / Keys  *)

\* A Keys() that goes through Each and decodes the value too.
VisitDecodesValues(p, bk, cont) ==
    LET r == AllVisit(bk, m[bk], cont)
    IN IF op[p].name = "All" THEN r ELSE [r EXCEPT !.item.v = Zero]

Visit(p, bk, cont) ==
    IF op[p].name = "All" THEN AllVisit(bk, m[bk], cont) ELSE KeysVisit(bk, cont)

\* One round of the loop: the next entry, in any order, goes to the
\* visitor, which decodes it and yields it to the consumer; the consumer
\* answers cont.
IterStep(p) ==
    /\ pc[p] = "iter"
    /\ \E bk \in todo[p], cont \in BOOLEAN :
         LET r == Visit(p, bk, cont)
         IN /\ out' = [out EXCEPT ![p] = IF r.yield THEN Append(@, r.item) ELSE @]
            /\ stopped' = [stopped EXCEPT ![p] = @ \/ (r.yield /\ ~cont)]
            /\ IF EachContinues(r.err)
               THEN /\ todo' = [todo EXCEPT ![p] = @ \ {bk}]
                    /\ UNCHANGED <<pc, txerr>>
               ELSE /\ txerr' = [txerr EXCEPT ![p] = r.err]
                    /\ pc' = [pc EXCEPT ![p] = "ret"]
                    /\ UNCHANGED todo
    /\ UNCHANGED <<path, codec, must, drvVars, lockVars, op, got, res, pre, ghostVars>>

\* The loop has visited every entry: Each / EachKey returns nil.
IterEnd(p) ==
    /\ pc[p] = "iter"
    /\ todo[p] = {}
    /\ txerr' = [txerr EXCEPT ![p] = Nil]
    /\ pc' = [pc EXCEPT ![p] = "ret"]
    /\ UNCHANGED <<path, codec, must, drvVars, lockVars, op, got, res, pre, iterVars, ghostVars>>

---------------------------------------------------------------------------
(* Leaving the transaction and the call                                    *)

\* A Map that drops what its transaction returned in every call.
CallErrorDropped(name, err) == Nil

\* The error the call of Map returns for what its transaction returned:
\* All and Keys drop what AcquireRO returns.
CallError(name, err) == IF name \in IterOps THEN Nil ELSE err

\* The deferred d.mu.Unlock() / d.mu.RUnlock(); the call returns.
Unlock(p) ==
    /\ pc[p] = "ret"
    /\ writer' = IF writer = p THEN 0 ELSE writer
    /\ readers' = readers \ {p}
    /\ res' = [res EXCEPT ![p].err = CallError(op[p].name, txerr[p])]
    /\ must' = [must EXCEPT ![p] =
                   MustResult(op[p].name,
                              [res[p] EXCEPT !.err = CallError(op[p].name, txerr[p])])]
    /\ pc' = [pc EXCEPT ![p] = "done"]
    /\ UNCHANGED <<path, codec, drvVars, op, got, txerr, pre, iterVars, ghostVars>>

\* The caller has its results and is free to call again.
Return(p) ==
    /\ pc[p] = "done"
    /\ pc' = [pc EXCEPT ![p] = "idle"]
    /\ op' = [op EXCEPT ![p] = NoOp]
    /\ got' = [got EXCEPT ![p] = NoGot]
    /\ res' = [res EXCEPT ![p] = NoRes]
    /\ txerr' = [txerr EXCEPT ![p] = Nil]
    /\ pre' = [pre EXCEPT ![p] = NoSnap]
    /\ todo' = [todo EXCEPT ![p] = {}]
    /\ out' = [out EXCEPT ![p] = <<>>]
    /\ stopped' = [stopped EXCEPT ![p] = FALSE]
    /\ must' = [must EXCEPT ![p] = NoMust]
    /\ UNCHANGED <<path, codec, drvVars, lockVars, ghostVars>>

---------------------------------------------------------------------------
(* The sequential specification: one caller                                *)

Names == RWOps \cup ROOps

Next ==
    \/ OpenLoad
    \/ OpenCreate
    \/ OpenError
    \/ Close
    \/ \E p \in Callers, name \in Names :
         \E k \in ArgKeys(name), v \in ArgValues(name) : Call(p, name, k, v)
    \/ \E p \in Callers : LockRW(p)
    \/ \E p \in Callers : LockRO(p)
    \/ \E p \in Callers : TxLoad(p)
    \/ \E p \in Callers : TxStore(p)
    \/ \E p \in Callers : TxDelete(p)
    \/ \E p \in Callers : TxGet(p)
    \/ \E p \in Callers : TxAfterGet(p)
    \/ \E p \in Callers : TxRaw(p)
    \/ \E p \in Callers : Commit(p)
    \/ \E p \in Callers : CommitFail(p)
    \/ \E p \in Callers : IterStep(p)
    \/ \E p \in Callers : IterEnd(p)
    \/ \E p \in Callers : Unlock(p)
    \/ \E p \in Callers : Return(p)

Spec == Init /\ [][Next]_vars

---------------------------------------------------------------------------
(* Properties                                                              *)

\* A goroutine is inside call `name`, its transaction is returning and the
\* deferred unlock has not run yet.
Returning(p, name) == pc[p] = "ret" /\ op[p].name = name

\* The transaction itself did not fail (os.WriteFile did not fail).
Committed(p) == txerr[p] # ErrWriteFile

\* What Load(k) returns on mapping mm.
LoadOn(mm, k) == LoadCallback(mm, EncodeKey(k).b)

Absent == [v |-> Zero, ok |-> FALSE, err |-> Nil]
Found(v) == [v |-> v, ok |-> TRUE, err |-> Nil]

\* C1: a Load(k) returns the value of the most recent successful store under
\* k (by Store, or by LoadOrStore on an absent key) not followed by a
\* deletion of k, with found = true and a nil error, and reports k absent
\* with a nil error after a successful deletion of k; the Load holds the
\* shared lock, so nothing mutates k between the two.  Only transactions
\* that succeeded count: once a transaction on k has failed, the claim says
\* nothing about k until the next successful mutation of k.
C1_StoreLoadConsistency ==
    \A p \in Procs :
        (Returning(p, "Load") /\ abs[op[p].k].known)
            => /\ txerr[p] = Nil
               /\ res[p].ok = abs[op[p].k].ok
               /\ res[p].v = abs[op[p].k].v

\* C1, its case: a Load returns a non-zero value that a Store put there,
\* while the other key is present too.
C1_Witness ==
    \E p \in Procs :
        /\ Returning(p, "Load")
        /\ abs[op[p].k] = [known |-> TRUE, ok |-> TRUE, v |-> MaxValue]
        /\ Cardinality(DOMAIN m) = 2

\* C2: LoadOrStore(k, v) on an absent key stores v under k and returns
\* (v, false, nil): the value returned is the caller's v.
C2_LoadOrStoreAbsentReturnsV ==
    \A p \in Procs :
        (Returning(p, "LoadOrStore") /\ ~got[p].ok /\ txerr[p] = Nil)
            => /\ LoadOn(m, op[p].k) = Found(op[p].v)
               /\ res[p].ok = FALSE
               /\ res[p].v = op[p].v

\* C3: LoadOrStore(k, v2) on a key that maps to v returns (v, true, nil),
\* performs no Set, and leaves k mapped to v (unless the commit of the
\* transaction itself fails, which the call then returns).
C3_LoadOrStorePresent ==
    \A p \in Procs :
        (/\ Returning(p, "LoadOrStore")
         /\ LoadOn(pre[p].m, op[p].k).ok
         /\ LoadOn(pre[p].m, op[p].k).err = Nil
         /\ Committed(p))
            => /\ txerr[p] = Nil
               /\ res[p].ok = TRUE
               /\ res[p].v = LoadOn(pre[p].m, op[p].k).v
               /\ m = pre[p].m
               /\ LoadOn(m, op[p].k) = Found(res[p].v)

\* C3, its case: the key was present and the caller offered another value.
C3_Witness ==
    \E p \in Procs :
        /\ Returning(p, "LoadOrStore")
        /\ LoadOn(pre[p].m, op[p].k) = Found(MaxValue)
        /\ op[p].v = Zero
        /\ txerr[p] = Nil

\* C4: LoadAndDelete(k) on an absent key returns (zero, false, nil) and
\* leaves the entries as they were; on a key that maps to v it returns
\* (v, true, nil), removes k and nothing else, and a Load(k) then returns
\* (zero, false, nil) (unless the commit of the transaction itself fails).
C4_LoadAndDelete ==
    \A p \in Procs :
        (Returning(p, "LoadAndDelete") /\ Committed(p))
            => LET before == LoadOn(pre[p].m, op[p].k)
                   bk == EncodeKey(op[p].k).b
               IN /\ ~before.ok
                     => /\ txerr[p] = Nil
                        /\ res[p].ok = FALSE
                        /\ res[p].v = Zero
                        /\ m = pre[p].m
                  /\ (before.ok /\ before.err = Nil)
                     => /\ txerr[p] = Nil
                        /\ res[p].ok = TRUE
                        /\ res[p].v = before.v
                        /\ DOMAIN m = DOMAIN pre[p].m \ {bk}
                        /\ \A x \in DOMAIN m : m[x] = pre[p].m[x]
                        /\ LoadOn(m, op[p].k) = Absent

\* C4, its case: a present key was loaded and deleted and another entry is
\* still there.
C4_Witness ==
    \E p \in Procs :
        /\ Returning(p, "LoadAndDelete")
        /\ LoadOn(pre[p].m, op[p].k) = Found(MaxValue)
        /\ txerr[p] = Nil
        /\ Cardinality(DOMAIN m) = 1

\* C5: Delete(k) returns nil whether or not k is present (unless the commit
\* of the transaction itself fails); a Load(k) then returns
\* (zero, false, nil); a Delete of a key that is absent, as after a first
\* Delete, leaves the mapping as it was.
C5_DeleteIdempotent ==
    \A p \in Procs :
        (Returning(p, "Delete") /\ Committed(p))
            => /\ txerr[p] = Nil
               /\ LoadOn(m, op[p].k) = Absent
               /\ ~LoadOn(pre[p].m, op[p].k).ok => m = pre[p].m
               /\ \A x \in DOMAIN m : x \in DOMAIN pre[p].m /\ m[x] = pre[p].m[x]

\* C5, its case: a Delete of an absent key returned nil on a non-empty
\* mapping.
C5_Witness ==
    \E p \in Procs :
        /\ Returning(p, "Delete")
        /\ txerr[p] = Nil
        /\ ~LoadOn(pre[p].m, op[p].k).ok
        /\ m # EmptyMap

\* C6: after the handle is closed with every transaction since the last
\* write of the file successful, and the same path is opened again, the
\* open succeeds and Load(k) returns for every key k what it returned just
\* before Close.
C6_PersistsAcrossReopen ==
    snap.set
        => /\ file.exists
           /\ UnmarshalMap(file.data).ok
           /\ drv = "open" => \A k \in Keys : LoadOn(m, k) = LoadOn(snap.m, k)

\* C6, its case: the path was opened again after Close and holds, besides
\* another entry, a value a caller had stored under "a".
C6_Witness ==
    /\ snap.set
    /\ drv = "open"
    /\ LoadOn(m, <<97>>) = Found(MaxValue)
    /\ Cardinality(DOMAIN m) = 2

\* C7: whenever a read-write transaction returns nil, the file holds
\* exactly the driver's mapping at that moment: every key of d.m with its
\* value and no other key; when d.m is empty the file is the empty mapping.
\* The same holds of an open driver between transactions, from the open
\* on, while no read-write transaction has failed since the last write.
C7_FileMirrorsMapping ==
    /\ \A p \in Procs :
        (pc[p] = "ret" /\ op[p].name \in RWOps /\ txerr[p] = Nil)
            => /\ file.exists
               /\ UnmarshalMap(file.data) = [ok |-> TRUE, m |-> m]
               /\ m = EmptyMap => file.data = <<160>>
    /\ (drv = "open" /\ writer = 0 /\ ~dirty)
            => /\ file.exists
               /\ UnmarshalMap(file.data) = [ok |-> TRUE, m |-> m]

\* C7, its case: the last key was deleted and the transaction returned nil.
C7_Witness ==
    \E p \in Procs :
        /\ Returning(p, "Delete")
        /\ txerr[p] = Nil
        /\ pre[p].m # EmptyMap
        /\ m = EmptyMap

\* The typed pairs of mapping mm.
PairsOf(mm) ==
    {[k |-> DecodeKey(bk).v, v |-> DecodeValue(mm[bk]).v] : bk \in DOMAIN mm}

Range(seq) == {seq[i] : i \in 1..Len(seq)}

\* C8: a run of All() whose consumer never stops and in which no decode
\* fails yields every entry the store held when the read-only transaction
\* was opened, each exactly once, and nothing else; no run yields more
\* elements than the store held.
C8_AllComplete ==
    \A p \in Procs :
        /\ op[p].name = "All" => Len(out[p]) <= Cardinality(DOMAIN pre[p].m)
        /\ (Returning(p, "All") /\ txerr[p] = Nil)
              => /\ Range(out[p]) = PairsOf(pre[p].m)
                 /\ Len(out[p]) = Cardinality(DOMAIN pre[p].m)
                 /\ \A i, j \in 1..Len(out[p]) : i # j => out[p][i] # out[p][j]

\* C8, its case: a run of All() over two entries ran to its end.
C8_Witness ==
    \E p \in Procs :
        /\ Returning(p, "All")
        /\ txerr[p] = Nil
        /\ Len(out[p]) = 2

\* C9: once the consumer of All() or Keys() has answered false, it is not
\* invoked again in that run (the loop is left), the read-only transaction
\* ends, and the call returns no error to its caller, as a run consumed to
\* its end does.
C9_EarlyStop ==
    \A p \in Procs :
        stopped[p]
            => /\ pc[p] \in {"ret", "done"}
               /\ op[p].name \in IterOps
               /\ CallError(op[p].name, txerr[p]) = Nil
               /\ pc[p] = "done" => (p \notin readers /\ res[p] = NoRes)

\* C9, its case: the consumer stopped at the first of two entries and the
\* call has returned.
C9_Witness ==
    \E p \in Procs :
        /\ stopped[p]
        /\ pc[p] = "done"
        /\ Len(out[p]) = 1
        /\ Cardinality(DOMAIN pre[p].m) = 2

\* C10: when the callback given to AcquireRW has called Set or Delete and
\* then returns an error, AcquireRW returns that error and the driver's
\* mapping is what it was when the transaction was opened: the effects are
\* discarded, no later transaction observes them.
C10_AbortDiscards ==
    \A p \in Procs :
        (pc[p] = "ret" /\ op[p].name \in RWOps /\ txerr[p] \notin {Nil, ErrWriteFile})
            => /\ op[p].name \in {"RawSet", "RawDelete"} => txerr[p] = ErrCallback
               /\ m = pre[p].m

\* C11: when Store, Delete, LoadOrStore or LoadAndDelete returns a non-nil
\* error, the failing commit (marshal or write of the file) included, no
\* write of that call is observable: every Load on the mapping afterwards
\* returns what it returned when the call's transaction was opened.
C11_NoPartialWrites ==
    \A p \in Procs :
        (pc[p] = "ret" /\ op[p].name \in MapMutators /\ txerr[p] # Nil)
            => \A k \in Keys : LoadOn(m, k) = LoadOn(pre[p].m, k)

---------------------------------------------------------------------------
(* The driver opened with the path ":memory:"                              *)

\* CBORDriver(":memory:", ..) where no file of that name lies yet.
InitMem == InitWith(MemoryPath, {NoFile})

SpecMem == InitMem /\ [][Next]_vars

\* C12: a driver opened with the path ":memory:" is non-persistent or the
\* open fails: no file is ever created or written at that path, so nothing
\* can survive a reopen.
C12_MemoryPathNeverWritten == path = MemoryPath => ~file.exists

---------------------------------------------------------------------------
(* Close, the wrappers, failures                                           *)

\* C13: a call of Store, Load, LoadOrStore, LoadAndDelete or Delete, or a
\* transaction acquired from the Driver directly, that is made once Close
\* has returned fails with an error and changes neither the mapping nor the
\* file: the mapping is still what it was when its transaction was opened.
C13_UseAfterCloseFails ==
    \A p \in Procs :
        (op[p].closed /\ op[p].name \notin IterOps)
            => /\ pc[p] = "done" => res[p].err # Nil
               /\ pc[p] = "ret" => (txerr[p] # Nil /\ m = pre[p].m)

\* The call has returned to its caller, through the wrapper if any.
Returned(p) == pc[p] = "done" /\ op[p].name \in MapMutators \cup {"Load"}

\* The key of the call was absent when its transaction was opened.
AbsentAtOpen(p) == pre[p].set /\ bkOf(p) \notin DOMAIN pre[p].m

\* C14: a method of MustMap / MustValue panics exactly when the call it
\* wraps returns a non-nil error, and otherwise returns that call's values
\* unchanged.  On an absent key Load returns (zero, false) without a panic,
\* and so do LoadAndDelete and LoadOrStore when nothing in the call fails
\* (the value encodes, the commit writes the file).
C14_MustPanicsIffError ==
    \A p \in Procs :
        Returned(p)
            => /\ must[p].panic <=> res[p].err # Nil
               /\ ~must[p].panic => (must[p].v = res[p].v /\ must[p].ok = res[p].ok)
               /\ (op[p].name = "Load" /\ AbsentAtOpen(p))
                     => must[p] = NoMust
               /\ (/\ op[p].name \in {"LoadAndDelete", "LoadOrStore"}
                   /\ AbsentAtOpen(p)
                   /\ Committed(p)
                   /\ ~EncodeValue(op[p].v).err)
                     => (~must[p].panic /\ ~must[p].ok)

\* C14, its case: a Load through MustMap panicked on a stored value that
\* does not decode.
C14_Witness ==
    \E p \in Procs :
        /\ Returned(p)
        /\ op[p].name = "Load"
        /\ res[p].err = ErrDecodeValue
        /\ must[p].panic

---------------------------------------------------------------------------
(* Value: a Map and one key of it                                          *)

\* The key the Value is bound to: NewMappedValue(m, "a").
ValueKey == <<97>>

\* The methods of Value.
ValueNames == MapMutators \cup {"Load"}

\* A Value whose Delete goes to another key than the one it is bound to.
mappedValueWrongKey(name, k0) == IF name = "Delete" THEN <<>> ELSE k0

\* The key a method of mappedValue passes to the Map: m.k.
mappedValueKey(name, k0) == k0

\* A caller enters Store, Load, LoadOrStore, LoadAndDelete or Delete of the
\* Value: the method of its Map, on the Value's key.
ValueCall(p, name, v) == Call(p, name, mappedValueKey(name, ValueKey), v)

NextValue ==
    \/ OpenLoad
    \/ OpenCreate
    \/ OpenError
    \/ Close
    \/ \E p \in Callers, name \in ValueNames :
         \E v \in ArgValues(name) : ValueCall(p, name, v)
    \/ \E p \in Callers : LockRW(p)
    \/ \E p \in Callers : LockRO(p)
    \/ \E p \in Callers : TxLoad(p)
    \/ \E p \in Callers : TxStore(p)
    \/ \E p \in Callers : TxDelete(p)
    \/ \E p \in Callers : TxGet(p)
    \/ \E p \in Callers : TxAfterGet(p)
    \/ \E p \in Callers : Commit(p)
    \/ \E p \in Callers : CommitFail(p)
    \/ \E p \in Callers : Unlock(p)
    \/ \E p \in Callers : Return(p)

SpecValue == Init /\ [][NextValue]_vars

\* A step of the Map in which any call made is a call on key k0.
MapStepOn(k0) ==
    \/ OpenLoad \/ OpenCreate \/ OpenError \/ Close
    \/ \E p \in Callers, name \in ValueNames :
         \E v \in ArgValues(name) : Call(p, name, k0, v)
    \/ \E p \in Callers :
         \/ LockRW(p) \/ LockRO(p) \/ TxLoad(p) \/ TxStore(p) \/ TxDelete(p)
         \/ TxGet(p) \/ TxAfterGet(p) \/ Commit(p) \/ CommitFail(p)
         \/ Unlock(p) \/ Return(p)

\* The entries of mapping mm under other driver keys than bk.
Others(mm, bk) == [x \in DOMAIN mm \ {bk} |-> mm[x]]

\* C15: every step of a Value bound to key k0 is the step of its Map on k0,
\* with the same results and the same effect, and no operation of the Value
\* reads or writes another key: the call's key is k0 and the entries under
\* every other key are what they were when the transaction was opened.
C15_ValueRestrictsMap ==
    /\ [][MapStepOn(ValueKey)]_vars
    /\ [](\A p \in Procs :
            /\ pc[p] # "idle" => op[p].k = ValueKey
            /\ (pc[p] # "idle" /\ pre[p].set)
                 => Others(m, EncodeKey(ValueKey).b)
                      = Others(pre[p].m, EncodeKey(ValueKey).b))

\* C15, its case: a Store of the Value has written its key while another
\* key of the Map holds an entry.
C15_Witness ==
    \E p \in Procs :
        /\ Returning(p, "Store")
        /\ txerr[p] = Nil
        /\ txGet(m, EncodeKey(ValueKey).b) = [bv |-> EncodeValue(MaxValue).b, ok |-> TRUE]
        /\ txGet(m, EncodeKey(<<>>).b).ok

---------------------------------------------------------------------------
(* Failures of iteration and of the other operations                       *)

\* C16: when a key or a value fails to decode during All() or Keys(), the
\* run stops at that entry (the consumer is not invoked for it, so it has
\* been yielded fewer entries than the mapping holds) and the failure
\* reaches the caller as the run's terminal error.
C16_IterationFailureReported ==
    \A p \in Procs :
        (/\ op[p].name \in IterOps
         /\ pc[p] \in {"ret", "done"}
         /\ txerr[p] \in {ErrDecodeKey, ErrDecodeValue})
            => /\ Len(out[p]) < Cardinality(DOMAIN pre[p].m)
               /\ pc[p] = "done" => res[p].err = txerr[p]

\* What the driver holds under the call's key when its transaction opens.
AtOpen(p) == txGet(pre[p].m, bkOf(p))

\* The call's key is present and its bytes do not decode as a value.
UndecodableAtOpen(p) == pre[p].set /\ AtOpen(p).ok /\ DecodeValue(AtOpen(p).bv).err

\* C17: Store, Load, LoadOrStore, LoadAndDelete and Delete return a non-nil
\* error whenever something in them fails: encoding the key, encoding the
\* value (Store; LoadOrStore on an absent key), decoding the stored value
\* (Load, LoadOrStore, LoadAndDelete on a present key), or the transaction
\* itself, whose error is the one returned.  Load on a present key that
\* does not decode returns an error, not (zero, false, nil); Load on an
\* absent key returns a nil error.
C17_FailuresNotSwallowed ==
    \A p \in Procs :
        Returned(p)
            => /\ EncodeKey(op[p].k).err => res[p].err # Nil
               /\ (op[p].name = "Store" /\ EncodeValue(op[p].v).err) => res[p].err # Nil
               /\ (op[p].name = "LoadOrStore" /\ AbsentAtOpen(p) /\ EncodeValue(op[p].v).err)
                     => res[p].err # Nil
               /\ (op[p].name \in {"Load", "LoadOrStore", "LoadAndDelete"} /\ UndecodableAtOpen(p))
                     => res[p].err # Nil
               /\ txerr[p] # Nil => res[p].err = txerr[p]
               /\ (op[p].name = "Load" /\ AbsentAtOpen(p)) => res[p] = Absent

\* C17, its case: a LoadOrStore on a present key whose bytes do not decode
\* has returned the decoding error.
C17_Witness ==
    \E p \in Procs :
        /\ Returned(p)
        /\ op[p].name = "LoadOrStore"
        /\ UndecodableAtOpen(p)
        /\ res[p].err = ErrDecodeValue

\* C18: when the visitor given to Each / EachKey returns the reserved stop
\* signal, the driver invokes it no further and Each / EachKey returns nil;
\* on any other error of the visitor it invokes it no further and returns
\* that error.
C18_DriverStopProtocol ==
    \A p \in Procs :
        (op[p].name \in IterOps /\ pc[p] = "ret")
            => IF stopped[p]
               THEN txerr[p] = Nil
               ELSE txerr[p] \in {Nil, ErrDecodeKey, ErrDecodeValue}

---------------------------------------------------------------------------
(* Concurrent callers of LoadOrStore on a fresh map                        *)

\* No file yet: the driver opens on an empty mapping, every key is absent.
InitConc == InitWith(FilePath, {NoFile})

\* Each goroutine makes one call of LoadOrStore, on any key with any value,
\* and keeps its results.
NextConc ==
    \/ OpenCreate
    \/ \E p \in Procs, k \in Keys, v \in Values : Call(p, "LoadOrStore", k, v)
    \/ \E p \in Procs : LockRW(p)
    \/ \E p \in Procs : TxGet(p)
    \/ \E p \in Procs : TxAfterGet(p)
    \/ \E p \in Procs : Commit(p)
    \/ \E p \in Procs : CommitFail(p)
    \/ \E p \in Procs : Unlock(p)

SpecConc == InitConc /\ [][NextConc]_vars

\* The goroutines whose LoadOrStore on k has its outcome.
Finished(k) == {p \in Procs : pc[p] \in {"ret", "done"} /\ op[p].k = k}

\* Those of them that returned loaded = false.
Winners(k) == {p \in Finished(k) : ~res[p].ok}

\* The goroutines inside a read-write transaction.
InTx == {p \in Procs : pc[p] \in {"tx", "got", "commit", "ret"}}

\* C19: of the concurrent calls LoadOrStore(k, v_i) on a key that was
\* absent, exactly one returns loaded = false, the value stored under k is
\* that call's v_i, and every other call returns loaded = true with that
\* value; no call's Get-then-Set runs while another read-write transaction
\* is open.
C19_LoadOrStoreAtomic ==
    /\ Cardinality(InTx) <= 1
    /\ \A k \in Keys :
         Finished(k) # {}
            => /\ Cardinality(Winners(k)) = 1
               /\ \A w \in Winners(k) :
                    /\ LoadOn(m, k) = Found(op[w].v)
                    /\ \A p \in Finished(k) \ {w} :
                         res[p].ok /\ res[p].v = op[w].v

\* C19, its case: two calls on the same key with different values have
\* both returned, one stored and the other loaded what it stored.
C19_Witness ==
    \E w, p \in Procs :
        /\ pc[w] = "done" /\ pc[p] = "done"
        /\ op[w].k = op[p].k
        /\ op[w].v = MaxValue /\ op[p].v = Zero
        /\ ~res[w].ok
        /\ res[p].ok /\ res[p].v = MaxValue

---------------------------------------------------------------------------
(* LoadAndDelete on a value that does not decode                           *)

\* A goroutine is in LoadAndDelete(k) and k was present, with bytes that do
\* not decode, when its transaction was opened.
LoadAndDeleteUndecodable(p) ==
    op[p].name = "LoadAndDelete" /\ pc[p] # "idle" /\ UndecodableAtOpen(p)

\* C20: LoadAndDelete(k) on a present key whose bytes do not decode returns
\* a non-nil error, never calls Delete and never commits: no step of the
\* call changes the mapping or the file, and k holds the same bytes
\* afterwards.
C20_LoadAndDeleteDecodeFailureHarmless ==
    /\ [][\A p \in Procs :
            LoadAndDeleteUndecodable(p) => (m' = m /\ file' = file)]_vars
    /\ [](\A p \in Procs :
            LoadAndDeleteUndecodable(p)
                => /\ pc[p] # "commit"
                   /\ txGet(m, bkOf(p)) = AtOpen(p)
                   /\ pc[p] = "ret" => txerr[p] = ErrDecodeValue
                   /\ pc[p] = "done" => res[p].err = ErrDecodeValue)

\* C20, its case: LoadAndDelete has returned the decoding error and the key
\* is still in the mapping.
C20_Witness ==
    \E p \in Procs :
        /\ LoadAndDeleteUndecodable(p)
        /\ pc[p] = "done"
        /\ res[p].err = ErrDecodeValue
        /\ bkOf(p) \in DOMAIN m

---------------------------------------------------------------------------
(* Opening a path where no file lies                                       *)

\* C21: where no file exists, the open either succeeds with an empty
\* mapping (every Load absent, All yields nothing) and the file then exists
\* and holds the empty mapping, written by the open's own first read-write
\* transaction, or that write fails and no driver is handed out.  An open
\* driver always has its file.
C21_MissingFileOpensEmpty ==
    /\ [][~file.exists
            => \/ /\ drv' = "open"
                  /\ file' = FileOf(MarshalMap(EmptyMap, <<>>))
                  /\ \A k \in Keys : LoadOn(m', k) = Absent
                  /\ PairsOf(m') = {}
               \/ /\ drv' = "none"
                  /\ m' = EmptyMap]_vars
    /\ [](drv = "open" => file.exists)

\* C21, its case: the driver has just been opened on a missing file.
C21_Witness ==
    /\ drv = "open"
    /\ m = EmptyMap
    /\ file = FileOf(MarshalMap(EmptyMap, <<>>))
    /\ \A k \in Keys : ~abs[k].known
    /\ \A p \in Procs : pc[p] = "idle"

---------------------------------------------------------------------------
(* A round trip through an identity codec                                  *)

\* Any string or byte sequence is about to be encoded into any buffer.
InitCodec ==
    /\ InitMap(FilePath, {NoFile})
    /\ \E kind \in {"string", "bytes"}, v \in SeqsUpTo(MaxLen), buf \in Slices :
         codec = [NoCodec EXCEPT !.pc = "start", !.kind = kind, !.v = v, !.buf = buf]

\* Encode(v, buf)
CodecEncode ==
    /\ codec.pc = "start"
    /\ codec' = [codec EXCEPT
                   !.pc = "encoded",
                   !.enc = IF codec.kind = "string"
                           THEN stringEncode(codec.v, codec.buf)
                           ELSE bytesEncode(codec.v, codec.buf)]
    /\ UNCHANGED <<drvVars, lockVars, pc, op, got, res, txerr, pre, iterVars,
                   ghostVars, path, must>>

\* Decode of what Encode returned.
CodecDecode ==
    /\ codec.pc = "encoded"
    /\ codec' = [codec EXCEPT
                   !.pc = "decoded",
                   !.dec = IF codec.kind = "string"
                           THEN stringDecode(codec.enc)
                           ELSE bytesDecode(codec.enc)]
    /\ UNCHANGED <<drvVars, lockVars, pc, op, got, res, txerr, pre, iterVars,
                   ghostVars, path, must>>

NextCodec ==
    \/ CodecEncode
    \/ CodecDecode

SpecCodec == InitCodec /\ [][NextCodec]_vars

\* C22: for every string and every byte sequence v and every buffer buf
\* (nil, empty, or holding bytes), Encode(v, buf) holds exactly v's bytes,
\* none of the buffer's previous contents, and Decode of it is v.
C22_IdentityRoundTrip ==
    /\ codec.pc \in {"encoded", "decoded"} => Contents(codec.enc) = codec.v
    /\ codec.pc = "decoded" => codec.dec = codec.v

\* C22, its case: a non-empty byte sequence went through a buffer that held
\* other bytes, in place.
C22_Witness ==
    /\ codec.pc = "decoded"
    /\ codec.kind = "bytes"
    /\ codec.v = <<97>>
    /\ codec.buf = [arr |-> <<0, 0>>, len |-> 2]
    /\ codec.enc.arr = <<97, 0>>

---------------------------------------------------------------------------
(* Concurrent callers of every operation                                   *)

\* Two goroutines call Store, Delete, LoadOrStore, LoadAndDelete, Load, All
\* and Keys on a freshly created map, again and again; no write fails.
NextLock ==
    \/ OpenCreate
    \/ \E p \in Procs, name \in MapMutators \cup ROOps :
         \E k \in (IF name \in IterOps THEN {<<>>} ELSE Keys),
            v \in (IF name \in {"Store", "LoadOrStore"} THEN Values ELSE {Zero}) :
           Call(p, name, k, v)
    \/ \E p \in Procs : LockRW(p)
    \/ \E p \in Procs : LockRO(p)
    \/ \E p \in Procs : TxLoad(p)
    \/ \E p \in Procs : TxStore(p)
    \/ \E p \in Procs : TxDelete(p)
    \/ \E p \in Procs : TxGet(p)
    \/ \E p \in Procs : TxAfterGet(p)
    \/ \E p \in Procs : Commit(p)
    \/ \E p \in Procs : IterStep(p)
    \/ \E p \in Procs : IterEnd(p)
    \/ \E p \in Procs : Unlock(p)
    \/ \E p \in Procs : Return(p)

SpecLock == InitConc /\ [][NextLock]_vars

\* The goroutines whose read-write callback is running (or has returned to
\* AcquireRW, which still holds the lock).
InRW == {p \in Procs : op[p].name \in RWOps /\ pc[p] \in {"tx", "got", "commit", "ret"}}

\* The goroutines whose read-only callback is running.
InRO == {p \in Procs : op[p].name \in ROOps /\ pc[p] \in {"tx", "iter", "ret"}}

\* C23: at most one read-write callback runs at a time, and none while a
\* read-only callback runs; read-only callbacks may run together.  So a
\* read-only transaction sees, for as long as it runs, the mapping it saw
\* when it was opened, never one between two writes of a read-write
\* transaction.
C23_LockDiscipline ==
    /\ Cardinality(InRW) <= 1
    /\ InRW # {} => InRO = {}
    /\ InRW = IF writer = 0 THEN {} ELSE {writer}
    /\ InRO = readers
    /\ \A p \in InRO : m = pre[p].m

\* C23, its case: two read-only callbacks run at the same time, over a
\* mapping that read-write transactions have filled.
C23_Witness ==
    /\ InRO = Procs
    /\ Cardinality(DOMAIN m) = 2

\* The goroutines whose run of All() or Keys() is in progress.
Iterating == {p \in Procs : op[p].name \in IterOps /\ pc[p] \in {"iter", "ret"}}

\* The typed keys of mapping mm.
KeysOf(mm) == {[k |-> DecodeKey(bk).v, v |-> Zero] : bk \in DOMAIN mm}

\* What a run of the call's kind yields over mapping mm.
ItemsOf(p, mm) == IF op[p].name = "All" THEN PairsOf(mm) ELSE KeysOf(mm)

\* C24: while a run of All() or Keys() is in progress no Store, Delete,
\* LoadOrStore or LoadAndDelete of another caller takes effect: the mapping
\* stays what it was when the read-only transaction was opened, the
\* elements yielded are among its contents and, at the end of a full run,
\* exactly its contents, and the other caller's read-write transaction is
\* not opened before the run has ended.
C24_IterationSeesSnapshot ==
    \A p \in Iterating :
        /\ m = pre[p].m
        /\ InRW = {}
        /\ Range(out[p]) \subseteq ItemsOf(p, pre[p].m)
        /\ (pc[p] = "ret" /\ txerr[p] = Nil)
              => /\ Range(out[p]) = ItemsOf(p, pre[p].m)
                 /\ Len(out[p]) = Cardinality(DOMAIN pre[p].m)

\* C24, its case: a run of All() has yielded one of two entries while
\* another caller's Delete waits for the lock.
C24_Witness ==
    \E p, q \in Procs :
        /\ op[p].name = "All" /\ pc[p] = "iter"
        /\ Len(out[p]) = 1
        /\ Cardinality(DOMAIN m) = 2
        /\ op[q].name = "Delete" /\ pc[q] = "wait"

---------------------------------------------------------------------------
(* Keys and All                                                            *)

\* The mapping holds an entry whose value bytes do not decode.
HasUndecodableValue(mm) == \E bk \in DOMAIN mm : DecodeValue(mm[bk]).err

\* C25: a full run of Keys() yields every stored key exactly once, the keys
\* a full run of All() yields; it goes through EachKey and decodes no
\* value, so it never fails on one and completes over an entry whose value
\* bytes do not decode, where a run of All() that is not stopped earlier
\* fails.
C25_KeysAgreesWithAll ==
    \A p \in Procs :
        /\ op[p].name = "Keys" => txerr[p] # ErrDecodeValue
        /\ (Returning(p, "Keys") /\ txerr[p] = Nil)
              => /\ Range(out[p]) = KeysOf(pre[p].m)
                 /\ {x.k : x \in Range(out[p])} = {y.k : y \in PairsOf(pre[p].m)}
                 /\ Len(out[p]) = Cardinality(DOMAIN pre[p].m)
        /\ (Returning(p, "All") /\ HasUndecodableValue(pre[p].m) /\ ~stopped[p])
              => /\ txerr[p] \in {ErrDecodeKey, ErrDecodeValue}
                 /\ Len(out[p]) < Cardinality(DOMAIN pre[p].m)

\* C25, its case: Keys() ran to its end over two entries of which one holds
\* a value that does not decode.
C25_Witness ==
    \E p \in Procs :
        /\ Returning(p, "Keys")
        /\ txerr[p] = Nil
        /\ Len(out[p]) = 2
        /\ HasUndecodableValue(pre[p].m)

---------------------------------------------------------------------------
(* What the operations leave alone                                         *)

\* C26: Store(k, .), Delete(k), LoadOrStore(k, .) and LoadAndDelete(k)
\* change the presence and the value of no key whose encoded bytes differ
\* from k's: the other entries of the mapping are what they were when the
\* transaction was opened.  No step of Load, All or Keys changes the
\* mapping or writes the file.
C26_Frame ==
    /\ [](\A p \in Procs :
            (op[p].name \in MapMutators /\ pre[p].set)
                => Others(m, bkOf(p)) = Others(pre[p].m, bkOf(p)))
    /\ [][\A p \in Procs :
            (op[p].name \in ROOps /\ pc[p] \in {"wait", "tx", "iter", "ret"})
                => (m' = m /\ file' = file)]_vars

\* C26, its case: a Store has added its key to a mapping that held another
\* key, which is still there.
C26_Witness ==
    \E p \in Procs :
        /\ Returning(p, "Store")
        /\ txerr[p] = Nil
        /\ bkOf(p) \notin DOMAIN pre[p].m
        /\ DOMAIN pre[p].m # {}
        /\ DOMAIN m = DOMAIN pre[p].m \cup {bkOf(p)}

---------------------------------------------------------------------------
(* A consumer that mutates the Map it iterates                             *)

\* The consumer of All() or Keys(), invoked for an entry, calls Store,
\* Delete, LoadOrStore or LoadAndDelete on the same Map: the goroutine
\* enters that call, up to AcquireRW, still inside the visitor, the loop
\* and the read-only transaction, whose shared lock it holds.
NestedCall(p, name, k, v) ==
    /\ pc[p] = "iter"
    /\ \E bk \in todo[p] :
         LET r == Visit(p, bk, TRUE)
         IN /\ r.yield
            /\ out' = [out EXCEPT ![p] = Append(@, r.item)]
    /\ EncodeError(name, k, v) = Nil
    /\ op' = [op EXCEPT ![p] = [name |-> name, k |-> k, v |-> v,
                                closed |-> (drv = "closed")]]
    /\ pc' = [pc EXCEPT ![p] = "wait"]
    /\ UNCHANGED <<path, codec, must, drvVars, lockVars, got, res, txerr, pre,
                   todo, stopped, ghostVars>>

\* Two goroutines store, iterate, and mutate from inside their consumers.
NextNested ==
    \/ OpenLoad
    \/ OpenCreate
    \/ OpenError
    \/ \E p \in Procs, name \in {"Store", "All", "Keys"} :
         \E k \in (IF name \in IterOps THEN {<<>>} ELSE Keys) :
           Call(p, name, k, MaxValue)
    \/ \E p \in Procs, name \in MapMutators, k \in Keys :
         NestedCall(p, name, k, MaxValue)
    \/ \E p \in Procs : LockRW(p)
    \/ \E p \in Procs : LockRO(p)
    \/ \E p \in Procs : TxStore(p)
    \/ \E p \in Procs : Commit(p)
    \/ \E p \in Procs : IterStep(p)
    \/ \E p \in Procs : IterEnd(p)
    \/ \E p \in Procs : Unlock(p)
    \/ \E p \in Procs : Return(p)

SpecNested == Init /\ [][NextNested]_vars

\* The goroutine waits for the exclusive lock while it holds the shared one.
NestedWaiting(p) == pc[p] = "wait" /\ p \in readers

\* C27: a consumer of All() or Keys() that calls Store, Delete, LoadOrStore
\* or LoadAndDelete on the same Map never returns: the nested call waits
\* for the exclusive lock while its own iteration holds the shared one, so
\* from then on the goroutine stays where it is, the iteration does not
\* end, the shared lock is not released and no read-write transaction
\* is ever opened again.
C27_ReentrantMutationDeadlocks ==
    /\ [][\A p \in Procs :
            NestedWaiting(p) => (NestedWaiting(p)' /\ writer' = 0)]_vars
    /\ [](\A p \in Procs :
            NestedWaiting(p) => (op[p].name \in MapMutators /\ writer = 0))

\* C27, its case: the consumer of All() called Store after one of two
\* entries.
C27_Witness ==
    \E p \in Procs :
        /\ NestedWaiting(p)
        /\ op[p].name = "Store"
        /\ Len(out[p]) = 1
        /\ Cardinality(DOMAIN pre[p].m) = 2

---------------------------------------------------------------------------
(* Encoding failures                                                       *)

\* The call fails to encode its key, or (Store) its value.
FailsToEncode(p) ==
    /\ op[p].name \in MapMutators \cup {"Load"}
    /\ \/ EncodeKey(op[p].k).err
       \/ op[p].name = "Store" /\ EncodeValue(op[p].v).err

\* LoadOrStore(k, v) with a key that encodes and a value that does not.
LoadOrStoreUnencodable(p) ==
    /\ op[p].name = "LoadOrStore"
    /\ ~EncodeKey(op[p].k).err
    /\ EncodeValue(op[p].v).err

\* C28: a call of Store, Load, LoadOrStore, LoadAndDelete or Delete whose
\* key does not encode, and a Store whose value does not encode, returns
\* that error without acquiring a transaction and leaves mapping, file and
\* lock as they are.  LoadOrStore encodes its value inside its read-write
\* transaction and only when the key is absent: the failure then is the
\* transaction's error, with no Set and no write of the file; on a present
\* key the value is not encoded and cannot fail.
C28_EncodeFailureBeforeTransaction ==
    /\ [](\A p \in Procs :
            FailsToEncode(p)
                => /\ pc[p] = "done"
                   /\ res[p].err \in {ErrEncodeKey, ErrEncodeValue}
                   /\ ~pre[p].set
                   /\ writer # p /\ p \notin readers)
    /\ [][\A p \in Procs :
            FailsToEncode(p)'
                => (m' = m /\ file' = file /\ writer' = writer /\ readers' = readers)]_vars
    /\ [](\A p \in Procs :
            LoadOrStoreUnencodable(p)
                => /\ pc[p] \in {"ret", "done"} => pre[p].set
                   /\ AbsentAtOpen(p)
                        => /\ pc[p] # "commit"
                           /\ m = pre[p].m
                           /\ pc[p] \in {"ret", "done"} => txerr[p] = ErrEncodeValue
                   /\ (pre[p].set /\ AtOpen(p).ok) => txerr[p] # ErrEncodeValue)
    /\ [][\A p \in Procs :
            (LoadOrStoreUnencodable(p) /\ AbsentAtOpen(p)) => file' = file]_vars

\* C28, its case: a LoadOrStore on an absent key has returned the failure
\* to encode its value, from inside its transaction.
C28_Witness ==
    \E p \in Procs :
        /\ LoadOrStoreUnencodable(p)
        /\ AbsentAtOpen(p)
        /\ pc[p] = "done"
        /\ res[p].err = ErrEncodeValue
        /\ DOMAIN m # {}

====
